---- MODULE Spec2Model ----
(***************************************************************************)
(* A model of grid.molgrid.MolGrid (src/src/grid/molgrid.py) and of the    *)
(* spherical-harmonic parameter table exercised by                         *)
(* src/src/grid/tests/test_interpolate.py.                                 *)
(*                                                                         *)
(* Arrays are sequences; Python's 0-based positions are kept in the        *)
(* operators' arguments and shifted by one where a sequence is read.       *)
(* Floating-point values are abstracted to small integers.                 *)
(***************************************************************************)
EXTENDS Integers, Sequences, FiniteSets, TLC

VARIABLES mg, args, ret, bk, sph

vars == <<mg, args, ret, bk, sph>>

(***************************************************************************)
(* Bounds of the model.                                                    *)
(***************************************************************************)
\* most atomic grids / atomic numbers handed to one construction
MaxAtoms == 2
\* most points of one atomic grid
MaxPts == 2
\* largest stored weight the model follows (caps repeated in-place products)
MaxWeight == 8
\* most value arrays handed to one integrate call
MaxArrays == 2
\* most atoms in the Becke chunk loop specification
BeckeMaxAtoms == 4
\* largest l_max of the enumeration helper: range(20) in the test
MaxLmax == 19

(***************************************************************************)
(* Python / numpy primitives.                                              *)
(***************************************************************************)
None == [kind |-> "None"]

Max(a, b) == IF a >= b THEN a ELSE b

Min(a, b) == IF a <= b THEN a ELSE b

\* seq[i] is defined for -len <= i < len, otherwise IndexError
InRange(s, i) == i >= -Len(s) /\ i < Len(s)

\* seq[i] as it would be were a negative i counted from the front
PyIndexFromFrontOnly(s, i) == IF i < 0 THEN s[-i] ELSE s[i + 1]

\* seq[i] with a negative i counted from the end
PyIndex(s, i) == IF i < 0 THEN s[Len(s) + i + 1] ELSE s[i + 1]

\* a slice bound normalised against a length n
SliceBound(n, a) ==
    IF a < 0 THEN Max(0, n + a) ELSE Min(n, a)

\* seq[a:b]
PySlice(s, a, b) ==
    LET lo == SliceBound(Len(s), a)
        hi == SliceBound(Len(s), b)
    IN  IF lo >= hi THEN <<>> ELSE [k \in 1..(hi - lo) |-> s[lo + k]]

\* seq[a:b] = vals (vals has the length of the slice)
PySliceAssign(s, a, b, vals) ==
    LET lo == SliceBound(Len(s), a)
        hi == SliceBound(Len(s), b)
    IN  [k \in 1..Len(s) |-> IF k > lo /\ k <= hi THEN vals[k - lo] ELSE s[k]]

\* np.zeros(n)
Zeros(n) == [k \in 1..n |-> 0]

\* np.arange(a, b)
Arange(a, b) == [k \in 1..Max(0, b - a) |-> a + k - 1]

RECURSIVE SumSeq(_)
SumSeq(s) == IF Len(s) = 0 THEN 0 ELSE Head(s) + SumSeq(Tail(s))

RECURSIVE ProdSeq(_)
ProdSeq(s) == IF Len(s) = 0 THEN 1 ELSE Head(s) * ProdSeq(Tail(s))

\* an error outcome: nothing is returned and the object is untouched
NoVal == [kind |-> "none"]

(***************************************************************************)
(* Inputs. An AtomicGrid is consumed through points, weights, center and   *)
(* size. Atom k (1-based position in the caller's list) has center k,      *)
(* points 10k+1, 10k+2, ... and alternating weights.                       *)
(***************************************************************************)
AtomicGrid(k, n) ==
    [points  |-> [j \in 1..n |-> 10 * k + j],
     weights |-> [j \in 1..n |-> 1 + ((j + k) % 2)],
     center  |-> k,
     size    |-> n]

AtomicGridLists(maxAtoms) ==
    UNION { { [k \in 1..n |-> AtomicGrid(k, sz[k])] : sz \in [1..n -> 0..MaxPts] }
            : n \in 1..maxAtoms }

NumbersChoices == { [k \in 1..n |-> 1] : n \in 1..MaxAtoms }

AimArray(len, seed) == [p \in 1..len |-> 1 + ((p + seed) % 2)]

AimChoices ==
    { [kind |-> "str", s |-> "becke"], [kind |-> "str", s |-> "hirshfeld"],
      [kind |-> "list"] }
    \cup { [kind |-> "ndarray", a |-> AimArray(len, seed)] :
             len \in 0..(MaxAtoms * MaxPts), seed \in 0..1 }

(***************************************************************************)
(* BeckeWeights.generate_becke_weights(points, radii, coors, pt_ind):      *)
(* one weight per point; the points of positions pt_ind[i]:pt_ind[i+1]     *)
(* receive atom i's weight.                                                *)
(***************************************************************************)
\* the (abstract) Becke weight of the atom centred at c for point x
BeckeValue(c, x) == 1 + ((x + c) % 2)

\* the atoms whose run pt_ind[i]:pt_ind[i+1] holds local position q
BeckeOwners(n, pt_ind, q) ==
    { i \in 0..(Len(pt_ind) - 2) :
        /\ SliceBound(n, pt_ind[i + 1]) <= q
        /\ q < SliceBound(n, pt_ind[i + 2]) }

SetMax(S) == CHOOSE x \in S : \A y \in S : y <= x

generate_becke_weights(points, coors, pt_ind) ==
    [k \in 1..Len(points) |->
        LET own == BeckeOwners(Len(points), pt_ind, k - 1)
        IN  IF own = {} THEN 0
            ELSE BeckeValue(coors[SetMax(own) + 1], points[k])]

\* the properties inherited from Grid: each hands out the stored array
\* itself, not a copy
GridPoints(self) == self.points

GridWeights(self) == self.weights

GridSize(self) == self.size

(***************************************************************************)
(* MolGrid.__init__                                                        *)
(***************************************************************************)
\* lines 28-35: the zeroed arrays
InitArrays(atomic_grids, numbers, store) ==
    LET size == SumSeq([k \in 1..Len(atomic_grids) |-> atomic_grids[k].size])
    IN  [kind         |-> "MolGrid",
         coors        |-> Zeros(Len(numbers)),
         indices      |-> Zeros(Len(numbers) + 1),
         size         |-> size,
         points       |-> Zeros(size),
         weights      |-> Zeros(size),
         atomic_grids |-> IF store THEN [kind |-> "list", items |-> atomic_grids]
                          ELSE None,
         aim_weights  |-> <<>>]

\* lines 37-41: the loop over enumerate(atomic_grids), from position i on
RECURSIVE Assemble(_, _, _)
Assemble(self, atomic_grids, i) ==
    IF i >= Len(atomic_grids) THEN [err |-> "", self |-> self]
    ELSE IF ~InRange(self.coors, i) THEN [err |-> "IndexError", self |-> self]
    ELSE
        LET g    == atomic_grids[i + 1]
            ind  == [self.indices EXCEPT
                        ![i + 2] = @ + PyIndex(self.indices, i) + g.size]
            s1   == [self EXCEPT
                        !.coors = [@ EXCEPT ![i + 1] = g.center],
                        !.indices = ind,
                        !.points = PySliceAssign(@, PyIndex(ind, i),
                                                 PyIndex(ind, i + 1), g.points),
                        !.weights = PySliceAssign(@, PyIndex(ind, i),
                                                  PyIndex(ind, i + 1), g.weights)]
        IN  Assemble(s1, atomic_grids, i + 1)

\* line 48
chunk_size(self) == Max(1, (10 * self.size) \div (Len(self.coors) * Len(self.coors)))

\* line 55 without the clip: self._indices - ibegin
ClipPtIndNoClip(indices, ibegin) ==
    [k \in 1..Len(indices) |-> indices[k] - ibegin]

\* line 55: (self._indices - ibegin).clip(min=0)
ClipPtInd(indices, ibegin) ==
    [k \in 1..Len(indices) |-> Max(0, indices[k] - ibegin)]

\* lines 51-56: the weights of the chunk that starts at ibegin
BeckeChunk(self, ibegin) ==
    generate_becke_weights(
        PySlice(self.points, ibegin, ibegin + chunk_size(self)),
        self.coors,
        ClipPtInd(self.indices, ibegin))

\* lines 49-59: the chunks of range(0, size, chunk_size), from ibegin on
RECURSIVE BeckeChunks(_, _)
BeckeChunks(self, ibegin) ==
    IF ibegin >= self.size THEN <<>>
    ELSE <<BeckeChunk(self, ibegin)>> \o BeckeChunks(self, ibegin + chunk_size(self))

RECURSIVE Concatenate(_)
Concatenate(arrays) ==
    IF Len(arrays) = 0 THEN <<>> ELSE Head(arrays) \o Concatenate(Tail(arrays))

\* lines 43-73 without the size test of lines 65-69
ResolveAimNoSizeCheck(self, aim_weights) ==
    IF aim_weights.kind = "str" THEN
        IF aim_weights.s = "becke" THEN
            LET chunks == BeckeChunks(self, 0)
            IN  IF Len(chunks) = 0 THEN [err |-> "ValueError", self |-> self]
                ELSE [err |-> "",
                      self |-> [self EXCEPT !.aim_weights = Concatenate(chunks)]]
        ELSE [err |-> "NotImplementedError", self |-> self]
    ELSE IF aim_weights.kind = "ndarray" THEN
        [err |-> "", self |-> [self EXCEPT !.aim_weights = aim_weights.a]]
    ELSE [err |-> "TypeError", self |-> self]

\* lines 43-73: the aim_weights argument resolved on the assembled arrays
ResolveAim(self, aim_weights) ==
    IF aim_weights.kind = "str" THEN
        IF aim_weights.s = "becke" THEN
            \* np.concatenate of an empty list raises ValueError
            LET chunks == BeckeChunks(self, 0)
            IN  IF Len(chunks) = 0 THEN [err |-> "ValueError", self |-> self]
                ELSE [err |-> "",
                      self |-> [self EXCEPT !.aim_weights = Concatenate(chunks)]]
        ELSE [err |-> "NotImplementedError", self |-> self]
    ELSE IF aim_weights.kind = "ndarray" THEN
        IF Len(aim_weights.a) # GridSize(self)
        THEN [err |-> "ValueError", self |-> self]
        ELSE [err |-> "", self |-> [self EXCEPT !.aim_weights = aim_weights.a]]
    ELSE [err |-> "TypeError", self |-> self]

\* MolGrid(atomic_grids, numbers, aim_weights, store): an error or the object
MolGridInit(atomic_grids, numbers, aim_weights, store) ==
    LET asm == Assemble(InitArrays(atomic_grids, numbers, store), atomic_grids, 0)
    IN  IF asm.err # "" THEN asm ELSE ResolveAim(asm.self, aim_weights)

(***************************************************************************)
(* MolGrid methods. Each returns err ("" when it returns normally), the    *)
(* returned value and the object as the call leaves it.                    *)
(***************************************************************************)
Raise(e, self) == [err |-> e, val |-> NoVal, self |-> self]

Return(v, self) == [err |-> "", val |-> v, self |-> self]

\* what a caller reads of a returned AtomicGrid / SimpleAtomicGrid
GridVal(points, weights, center) ==
    [kind |-> "grid", points |-> points, weights |-> weights, center |-> center]

ArrayVal(a) == [kind |-> "array", a |-> a]

ScalarVal(v) == [kind |-> "scalar", v |-> v]

\* elementwise product of two arrays of one length
Times(a, b) == [k \in 1..Len(a) |-> a[k] * b[k]]

\* lines 138-144
get_atomic_grid(self, index) ==
    IF self.atomic_grids = None THEN Raise("NotImplementedError", self)
    ELSE IF index < 0 THEN Raise("ValueError", self)
    ELSE IF ~InRange(self.atomic_grids.items, index) THEN Raise("IndexError", self)
    ELSE LET g == PyIndex(self.atomic_grids.items, index)
         IN  Return(GridVal(g.points, g.weights, g.center), self)

\* lines 198-201
get_aim_weights(self, index) ==
    IF index >= 0 THEN
        IF ~InRange(self.indices, index) \/ ~InRange(self.indices, index + 1)
        THEN Raise("IndexError", self)
        ELSE Return(ArrayVal(PySlice(self.aim_weights,
                                     PyIndex(self.indices, index),
                                     PyIndex(self.indices, index + 1))), self)
    ELSE Raise("ValueError", self)

\* line 170: wts is a view of the stored weights (line 168), so the in-place
\* product is written through to them
WeightsViewWrite(self, s_ind, f_ind, wts) ==
    [self EXCEPT !.weights = PySliceAssign(@, s_ind, f_ind, wts)]

\* lines 163-172
get_simple_atomic_grid(self, index, with_aim_wts) ==
    IF ~InRange(self.indices, index) \/ ~InRange(self.indices, index + 1)
    THEN Raise("IndexError", self)
    ELSE
        LET s_ind == PyIndex(self.indices, index)
            f_ind == PyIndex(self.indices, index + 1)
            pts   == PySlice(GridPoints(self), s_ind, f_ind)
            wts   == PySlice(GridWeights(self), s_ind, f_ind)
            aim   == get_aim_weights(self, index)
        IN  IF with_aim_wts /\ aim.err # "" THEN Raise(aim.err, self)
            ELSE
                LET wts1  == IF with_aim_wts THEN Times(wts, aim.val.a) ELSE wts
                    self1 == IF with_aim_wts
                             THEN WeightsViewWrite(self, s_ind, f_ind, wts1)
                             ELSE self
                IN  IF ~InRange(self.coors, index) THEN Raise("IndexError", self1)
                    ELSE Return(GridVal(pts, wts1, PyIndex(self.coors, index)),
                                self1)

\* array.size
Size(array) == ProdSeq(array.shape)

\* lines 230-235: einsum("i, i, i, ...") over weights, aim_weights and the
\* flattened arrays
Einsum(self, value_arrays) ==
    SumSeq([p \in 1..GridSize(self) |->
              GridWeights(self)[p] * self.aim_weights[p]
              * ProdSeq([k \in 1..Len(value_arrays) |-> value_arrays[k].data[p]])])

\* the per-argument check of lines 226-229 comparing len(array) to the size
ArgErrorByLen(self, array) ==
    IF array.kind # "ndarray" THEN "TypeError"
    ELSE IF array.shape[1] # GridSize(self) THEN "ValueError"
    ELSE ""

\* lines 226-229 for one argument
ArgError(self, array) ==
    IF array.kind # "ndarray" THEN "TypeError"
    ELSE IF Size(array) # GridSize(self) THEN "ValueError"
    ELSE ""

\* lines 223-235
integrate(self, value_arrays) ==
    IF Len(value_arrays) < 1 THEN Raise("ValueError", self)
    ELSE
        LET bad == { i \in 1..Len(value_arrays) :
                        ArgError(self, value_arrays[i]) # "" }
        IN  IF bad # {}
            THEN Raise(ArgError(self, value_arrays[
                           CHOOSE i \in bad : \A j \in bad : i <= j]), self)
            ELSE Return(ScalarVal(Einsum(self, value_arrays)), self)

\* lines 252-260
getitem(self, index) ==
    IF self.atomic_grids = None THEN
        IF ~InRange(self.indices, index) \/ ~InRange(self.indices, index + 1)
        THEN Raise("IndexError", self)
        ELSE
            LET s_ind == PyIndex(self.indices, index)
                f_ind == PyIndex(self.indices, index + 1)
            IN  IF ~InRange(self.coors, index) THEN Raise("IndexError", self)
                ELSE Return(GridVal(PySlice(GridPoints(self), s_ind, f_ind),
                                    Times(PySlice(GridWeights(self), s_ind, f_ind),
                                          PySlice(self.aim_weights, s_ind, f_ind)),
                                    PyIndex(self.coors, index)), self)
    ELSE IF ~InRange(self.atomic_grids.items, index) THEN Raise("IndexError", self)
    ELSE LET g == PyIndex(self.atomic_grids.items, index)
         IN  Return(GridVal(g.points, g.weights, g.center), self)

(***************************************************************************)
(* The caller: one construction, then any sequence of method calls.        *)
(***************************************************************************)
NoRet == [op |-> "none", index |-> 0, flag |-> FALSE, arrays |-> <<>>,
          err |-> "", val |-> NoVal]

Ret(op, index, flag, arrays, r) ==
    [op |-> op, index |-> index, flag |-> flag, arrays |-> arrays,
     err |-> r.err, val |-> r.val]

BkIdle == [pc |-> "idle", self |-> None, ibegin |-> 0, chunks |-> <<>>]

SphIdle == [pc |-> "idle", max_l |-> 0, l |-> <<>>, m |-> <<>>,
            order |-> 0, got |-> 0]

Indexes == -(MaxAtoms + 2)..MaxAtoms

FieldData(len, seed) == [p \in 1..len |-> 1 + ((p + seed) % 3)]

NdArray(shape, seed) ==
    [kind |-> "ndarray", shape |-> shape, data |-> FieldData(ProdSeq(shape), seed)]

\* the arguments tried on a grid of M points: a list of arrays of the grid's
\* shape, with one or two positions replaced by another kind of argument
FieldAlternatives(M) ==
    { [kind |-> "float"],
      NdArray(<<M + 1>>, 0), NdArray(<<1, M>>, 0), NdArray(<<M, 2>>, 0) }

FieldBase(M, n) == [k \in 1..n |-> NdArray(<<M>>, k % 2)]

FieldLists(M) ==
    UNION { IF n = 0 THEN { <<>> }
            ELSE { FieldBase(M, n) }
                 \cup { [FieldBase(M, n) EXCEPT ![j] = alt] :
                          j \in 1..n, alt \in FieldAlternatives(M) }
                 \cup { [FieldBase(M, n) EXCEPT ![1] = a, ![n] = b] :
                          a \in FieldAlternatives(M), b \in FieldAlternatives(M) }
            : n \in 0..MaxArrays }

Init ==
    /\ mg = None
    /\ args = None
    /\ ret = NoRet
    /\ bk = BkIdle
    /\ sph = SphIdle

Construct ==
    /\ args = None
    /\ \E atomic_grids \in AtomicGridLists(MaxAtoms), numbers \in NumbersChoices,
          aim_weights \in AimChoices, store \in BOOLEAN :
        LET r == MolGridInit(atomic_grids, numbers, aim_weights, store)
        IN  /\ args' = [kind |-> "args", atomic_grids |-> atomic_grids,
                        numbers |-> numbers, aim_weights |-> aim_weights,
                        store |-> store]
            /\ mg' = IF r.err = "" THEN r.self ELSE None
            /\ ret' = [NoRet EXCEPT !.op = "init", !.err = r.err]
    /\ UNCHANGED <<bk, sph>>

GetAtomicGrid ==
    /\ mg # None
    /\ ret = NoRet
    /\ \E index \in Indexes :
        LET r == get_atomic_grid(mg, index)
        IN  /\ mg' = r.self
            /\ ret' = Ret("get_atomic_grid", index, FALSE, <<>>, r)
    /\ UNCHANGED <<args, bk, sph>>

GetSimpleAtomicGrid ==
    /\ mg # None
    /\ ret = NoRet
    /\ \E index \in Indexes, with_aim_wts \in BOOLEAN :
        LET r == get_simple_atomic_grid(mg, index, with_aim_wts)
        IN  /\ \A p \in 1..Len(r.self.weights) : r.self.weights[p] <= MaxWeight
            /\ mg' = r.self
            /\ ret' = Ret("get_simple_atomic_grid", index, with_aim_wts, <<>>, r)
    /\ UNCHANGED <<args, bk, sph>>

GetAimWeights ==
    /\ mg # None
    /\ ret = NoRet
    /\ \E index \in Indexes :
        LET r == get_aim_weights(mg, index)
        IN  /\ mg' = r.self
            /\ ret' = Ret("get_aim_weights", index, FALSE, <<>>, r)
    /\ UNCHANGED <<args, bk, sph>>

Integrate ==
    /\ mg # None
    /\ ret = NoRet
    /\ \E value_arrays \in FieldLists(mg.size) :
        LET r == integrate(mg, value_arrays)
        IN  /\ mg' = r.self
            /\ ret' = Ret("integrate", 0, FALSE, value_arrays, r)
    /\ UNCHANGED <<args, bk, sph>>

GetItem ==
    /\ mg # None
    /\ ret = NoRet
    /\ \E index \in Indexes :
        LET r == getitem(mg, index)
        IN  /\ mg' = r.self
            /\ ret' = Ret("getitem", index, FALSE, <<>>, r)
    /\ UNCHANGED <<args, bk, sph>>

\* the caller drops the value (or the error) of its last call
Discard ==
    /\ ret # NoRet
    /\ ret' = NoRet
    /\ UNCHANGED <<mg, args, bk, sph>>

Next ==
    \/ Construct
    \/ GetAtomicGrid
    \/ GetSimpleAtomicGrid
    \/ GetAimWeights
    \/ Integrate
    \/ GetItem
    \/ Discard

Spec == Init /\ [][Next]_vars

(***************************************************************************)
(* The Becke branch of __init__ followed chunk by chunk: the list          *)
(* comprehension of lines 49-59 evaluates one chunk per step.              *)
(***************************************************************************)
BeckeStart ==
    /\ bk.pc = "idle"
    /\ \E atomic_grids \in AtomicGridLists(BeckeMaxAtoms),
          n \in 1..BeckeMaxAtoms :
        LET asm == Assemble(InitArrays(atomic_grids, [k \in 1..n |-> 1], FALSE),
                            atomic_grids, 0)
        IN  /\ asm.err = ""
            /\ bk' = [pc |-> "loop", self |-> asm.self, ibegin |-> 0,
                      chunks |-> <<>>]
    /\ UNCHANGED <<mg, args, ret, sph>>

\* one iteration of "for ibegin in range(0, self._size, chunk_size)"
BeckeChunkStep ==
    /\ bk.pc = "loop"
    /\ bk.ibegin < bk.self.size
    /\ bk' = [bk EXCEPT !.chunks = Append(@, BeckeChunk(bk.self, bk.ibegin)),
                        !.ibegin = @ + chunk_size(bk.self)]
    /\ UNCHANGED <<mg, args, ret, sph>>

\* np.concatenate of the collected chunks
BeckeFinish ==
    /\ bk.pc = "loop"
    /\ bk.ibegin >= bk.self.size
    /\ bk' = IF Len(bk.chunks) = 0 THEN [bk EXCEPT !.pc = "error"]
             ELSE [bk EXCEPT !.pc = "done",
                             !.self.aim_weights = Concatenate(bk.chunks)]
    /\ UNCHANGED <<mg, args, ret, sph>>

NextBecke ==
    \/ BeckeStart
    \/ BeckeChunkStep
    \/ BeckeFinish

SpecBecke == Init /\ [][NextBecke]_vars

(***************************************************************************)
(* The enumeration helper _generate_sph_paras(max_l) and the way the tests *)
(* read a table by order: sph_h[m, l].                                     *)
(***************************************************************************)
generate_sph_paras(max_l) ==
    [l |-> Arange(0, max_l + 1),
     m |-> Arange(0, max_l + 1) \o Arange(-max_l, 0)]

SphGenerate ==
    /\ sph.pc = "idle"
    /\ \E max_l \in 0..MaxLmax :
        LET r == generate_sph_paras(max_l)
        IN  sph' = [SphIdle EXCEPT !.pc = "generated", !.max_l = max_l,
                                   !.l = r.l, !.m = r.m]
    /\ UNCHANGED <<mg, args, ret, bk>>

\* the slot of order m, read as the tests read it: table[m]
SphIndex ==
    /\ sph.pc \in {"generated", "indexed"}
    /\ \E order \in -sph.max_l..sph.max_l :
        sph' = [sph EXCEPT !.pc = "indexed", !.order = order,
                           !.got = PyIndex(sph.m, order)]
    /\ UNCHANGED <<mg, args, ret, bk>>

NextSph ==
    \/ SphGenerate
    \/ SphIndex

SpecSph == Init /\ [][NextSph]_vars

(***************************************************************************)
(* What the caller handed to the constructor.                              *)
(***************************************************************************)
GivenGrids == args.atomic_grids

\* N: the number of atomic numbers given
GivenN == Len(args.numbers)

\* M: the total number of points of the atomic grids given
GivenM == SumSeq([k \in 1..Len(GivenGrids) |-> GivenGrids[k].size])

\* the first global position of atomic grid i (0-based)
GivenStart(i) == SumSeq([k \in 1..i |-> GivenGrids[k].size])

GivenWeights == Concatenate([k \in 1..Len(GivenGrids) |-> GivenGrids[k].weights])

\* atoms that have an atomic grid
GivenAtoms == 0..(Min(GivenN, Len(GivenGrids)) - 1)

\* aim_weights on the slice of atomic grid i
AimOnSlice(i) ==
    [j \in 1..GivenGrids[i + 1].size |-> mg.aim_weights[GivenStart(i) + j]]

IndexOps == {"get_atomic_grid", "get_simple_atomic_grid", "get_aim_weights", "getitem"}

(***************************************************************************)
(* Claims.                                                                 *)
(***************************************************************************)

\* C1: integrate(f_1..f_k) returns the sum over all points p of
\* (quadrature weight of p as given at construction) * aim_weights[p]
\* * f_1[p] * ... * f_k[p].
C1_IntegrateUsesGivenWeights ==
    (ret.op = "integrate" /\ ret.err = "") =>
        ret.val = ScalarVal(SumSeq([p \in 1..GivenM |->
            GivenWeights[p] * mg.aim_weights[p]
            * ProdSeq([k \in 1..Len(ret.arrays) |-> ret.arrays[k].data[p]])]))

\* C2 (as claimed): integrate succeeds exactly when there is at least one
\* argument and every argument is an array of exactly the shape (M,); a
\* multi-dimensional array with M elements is rejected.
C2_IntegrateRequiresExactShape ==
    ret.op = "integrate" =>
        /\ ret.err = "" <=>
              /\ Len(ret.arrays) >= 1
              /\ \A k \in 1..Len(ret.arrays) :
                    /\ ret.arrays[k].kind = "ndarray"
                    /\ ret.arrays[k].shape = <<mg.size>>
        /\ ret.err # "" => ret.val = NoVal

\* C2 (amended): integrate succeeds, returning a scalar, exactly when there
\* is at least one argument and every argument is an array holding M
\* elements in total, whatever its shape; otherwise it fails with a
\* ValueError or TypeError and returns nothing.
C2_IntegrateRequiresExactSize ==
    ret.op = "integrate" =>
        /\ ret.err = "" <=>
              /\ Len(ret.arrays) >= 1
              /\ \A k \in 1..Len(ret.arrays) :
                    /\ ret.arrays[k].kind = "ndarray"
                    /\ ProdSeq(ret.arrays[k].shape) = mg.size
        /\ ret.err = "" => ret.val.kind = "scalar"
        /\ ret.err # "" => ret.val = NoVal /\ ret.err \in {"ValueError", "TypeError"}

\* C2 witness: a two-dimensional array with M >= 2 elements was accepted.
C2_Witness ==
    /\ ret.op = "integrate"
    /\ ret.err = ""
    /\ mg.size >= 2
    /\ \E k \in 1..Len(ret.arrays) : Len(ret.arrays[k].shape) = 2

\* C3: every reachable state of a MolGrid has the array contents it had
\* immediately after construction.
C3_ContentsAsConstructed ==
    mg # None =>
        mg = MolGridInit(args.atomic_grids, args.numbers, args.aim_weights,
                         args.store).self

\* C4: get_simple_atomic_grid(i, with_aim_wts=True) returns the points and
\* the center of atom i, and atomic grid i's given weights multiplied once
\* by aim_weights on slice i.
C4_SimpleGridWeightsMultipliedOnce ==
    (/\ ret.op = "get_simple_atomic_grid"
     /\ ret.flag
     /\ ret.index \in GivenAtoms) =>
        ret.val = GridVal(GivenGrids[ret.index + 1].points,
                          Times(GivenGrids[ret.index + 1].weights,
                                AimOnSlice(ret.index)),
                          GivenGrids[ret.index + 1].center)

\* C5: grid[i] is the same for the retaining and the non-retaining MolGrid
\* built from the same arguments: atom i's points and center, and atomic
\* grid i's weights multiplied by the aim weights of slice i.
C5_IndexingSameWithAndWithoutStore ==
    (ret.op = "getitem" /\ ret.index \in GivenAtoms) =>
        LET other == MolGridInit(args.atomic_grids, args.numbers,
                                 args.aim_weights, ~args.store).self
        IN  /\ ret.val = getitem(other, ret.index).val
            /\ ret.val = GridVal(GivenGrids[ret.index + 1].points,
                                 Times(GivenGrids[ret.index + 1].weights,
                                       AimOnSlice(ret.index)),
                                 GivenGrids[ret.index + 1].center)

\* C6: every operation that takes an atom index reports an error and
\* returns nothing when the index is negative.
C6_NegativeIndexRejected ==
    (ret.op \in IndexOps /\ ret.index < 0) =>
        ret.err # "" /\ ret.val = NoVal

\* C7: a MolGrid that construction returns has N+1 non-decreasing indices
\* from 0 to M, and slice i of points and weights is atomic grid i's, with
\* centers[i] its center.
C7_IndicesPartitionThePoints ==
    (ret.op = "init" /\ ret.err = "") =>
        /\ Len(mg.indices) = GivenN + 1
        /\ \A k \in 1..GivenN : mg.indices[k] <= mg.indices[k + 1]
        /\ mg.indices[1] = 0
        /\ mg.indices[GivenN + 1] = GivenM
        /\ \A i \in GivenAtoms :
            /\ PySlice(mg.points, mg.indices[i + 1], mg.indices[i + 2])
                  = GivenGrids[i + 1].points
            /\ PySlice(mg.weights, mg.indices[i + 1], mg.indices[i + 2])
                  = GivenGrids[i + 1].weights
            /\ mg.coors[i + 1] = GivenGrids[i + 1].center

C9_OrdersIndexTheirOwnSlot ==
    sph.pc # "idle" =>
        /\ Len(sph.l) = sph.max_l + 1
        /\ \A k \in 1..Len(sph.l) : sph.l[k] = k - 1
        /\ Len(sph.m) = 2 * sph.max_l + 1
        /\ \A k \in 1..Len(sph.m) :
              sph.m[k] = IF k <= sph.max_l + 1 THEN k - 1
                         ELSE k - 2 * sph.max_l - 2
        /\ \A o \in -sph.max_l..sph.max_l :
              Cardinality({k \in 1..Len(sph.m) : sph.m[k] = o}) = 1
        /\ sph.pc = "indexed" => sph.got = sph.order

\* C9 witness: a negative order was looked up in a table with l_max >= 2.
C9_Witness ==
    /\ sph.pc = "indexed"
    /\ sph.max_l >= 2
    /\ sph.order < -1
    /\ sph.got = sph.order

\* the atom that owns global point p (0-based) under indices
OwnerUnderIndices(self, p) ==
    { i \in 0..(Len(self.indices) - 2) :
        self.indices[i + 1] <= p /\ p < self.indices[i + 2] }

\* the 0-based start of the k-th chunk (k from 1)
ChunkStart(self, k) == (k - 1) * chunk_size(self)

\* C10: the chunks cover every global point once, in increasing order; in
\* every chunk the owner given by the clipped map is the owner under
\* indices; and the concatenated weights equal one unchunked evaluation.
C10_ChunkedBeckeIsUnchunked ==
    bk.pc \in {"loop", "done"} =>
        LET self == bk.self
            cs   == chunk_size(self)
            whole == generate_becke_weights(self.points, self.coors, self.indices)
        IN  /\ \A k \in 1..Len(bk.chunks) :
                /\ Len(bk.chunks[k]) = Min(cs, self.size - ChunkStart(self, k))
                /\ \A q \in 0..(Len(bk.chunks[k]) - 1) :
                    /\ BeckeOwners(Len(bk.chunks[k]),
                                   ClipPtInd(self.indices, ChunkStart(self, k)), q)
                          = OwnerUnderIndices(self, ChunkStart(self, k) + q)
                    /\ bk.chunks[k][q + 1] = whole[ChunkStart(self, k) + q + 1]
            /\ bk.ibegin = Len(bk.chunks) * cs
            /\ bk.pc = "done" =>
                /\ Len(self.aim_weights) = self.size
                /\ self.aim_weights = whole
                /\ \A p \in 0..(self.size - 1) :
                    \E i \in OwnerUnderIndices(self, p) :
                        self.aim_weights[p + 1]
                            = BeckeValue(self.coors[i + 1], self.points[p + 1])

\* C10 witness: a construction with one atomic grid per atom finished with
\* three or more chunks, one of which starts inside an atom's slice.
C10_Witness ==
    /\ bk.pc = "done"
    /\ bk.self.indices[Len(bk.self.indices)] = bk.self.size
    /\ Len(bk.chunks) >= 3
    /\ \E k \in 2..Len(bk.chunks) :
          \E i \in 1..Len(bk.self.indices) - 1 :
              /\ bk.self.indices[i] < ChunkStart(bk.self, k)
              /\ ChunkStart(bk.self, k) < bk.self.indices[i + 1]

====
